---- MODULE Spec2Model ----
(***************************************************************************)
(* A model of the Modbus TCP transport of src/src/modbus-tcp.c: the        *)
(* step-wise message framer _modbus_tcp_receive_msg with its recovery      *)
(* policy, the request/response header builders with the transaction-id    *)
(* counter, and cloning of a context.                                      *)
(***************************************************************************)
EXTENDS Integers, Sequences, FiniteSets, TLC

(***************************************************************************)
(* Program constants.                                                      *)
(***************************************************************************)
\* _MODBUS_TCP_HEADER_LENGTH, the backend's header_length
HEADER_LENGTH == 7
\* MODBUS_TCP_MAX_ADU_LENGTH, the backend's max_adu_length
MAX_ADU_LENGTH == 260
\* _MODBUS_TCP_CHECKSUM_LENGTH, the backend's checksum_length
CHECKSUM_LENGTH == 0
\* UINT16_MAX
UINT16_MAX == 65535
\* _MODBUS_TCP_PRESET_REQ_LENGTH
PRESET_REQ_LENGTH == 12
\* _MODBUS_TCP_PRESET_RSP_LENGTH
PRESET_RSP_LENGTH == 8
\* MODBUS_TCP_SLAVE
MODBUS_TCP_SLAVE == 255

\* the sizes of the node and service fields of modbus_tcp_pi_t
MODBUS_TCP_PI_NODE_LENGTH == 1025

MODBUS_TCP_PI_SERVICE_LENGTH == 32

(***************************************************************************)
(* Bounds of the model.                                                    *)
(***************************************************************************)
\* descriptors are 0..MaxFd
MaxFd == 1
\* signal interruptions of one readiness wait
MaxEintr == 2
\* requests built on one context, enough to pass the wrap of the counter twice
MaxBuilds == 65540
\* requests built before the receive call that is followed to its end
MaxBusyBuilds == 1
\* candidate addresses one name resolution returns
MaxCand == 2
\* requests built on a context and its clone together
MaxCloneBuilds == 5
\* length patches applied to one request
MaxPatches == 3
Fds == 0 .. MaxFd

MsgTypes == {"MSG_INDICATION", "MSG_CONFIRMATION"}

(***************************************************************************)
(* The bytes the peer sends.  A wire is [fc, cnt, fill]: byte 7 is the     *)
(* function code, the bytes at the offsets where a byte count can sit      *)
(* (header_length + 1, + 5, + 9) hold cnt, every other byte follows a      *)
(* pattern chosen by fill.                                                 *)
(***************************************************************************)
Wire(fc, cnt, fill) == [fc |-> fc, cnt |-> cnt, fill |-> fill]

Wires ==
    {Wire(3, 2, 1), Wire(3, 251, 1), Wire(3, 252, 2), Wire(3, 255, 1),
     Wire(7, 0, 1), Wire(16, 2, 2), Wire(16, 247, 1), Wire(16, 248, 1),
     Wire(23, 3, 1), Wire(131, 2, 1)}

WireByte(w, i) ==
    IF i = HEADER_LENGTH THEN w.fc
    ELSE IF i \in {HEADER_LENGTH + 1, HEADER_LENGTH + 5, HEADER_LENGTH + 9} THEN w.cnt
    ELSE (i * (2 * w.fill + 1) + w.fill) % 256

\* more bytes than any message holds
WireLen == MAX_ADU_LENGTH + 2 * HEADER_LENGTH

\* the bytes of a wire, in order
WireSeq(w) == [i \in 1 .. WireLen |-> WireByte(w, i - 1)]

\* the k bytes of the byte sequence ws from offset from on
WireBytes(ws, from, k) == SubSeq(ws, from + 1, from + k)


(***************************************************************************)
(* Helpers of the generic engine used by the framer.                       *)
(***************************************************************************)
\* msg[i] of the C buffer (0-based) over the bytes written so far
At(m, i) == m[i + 1]

compute_meta_length_after_function(function, mt) ==
    IF mt = "MSG_INDICATION"
    THEN IF function <= 6 THEN 4
         ELSE IF function \in {15, 16} THEN 5
         ELSE IF function = 23 THEN 9
         ELSE 0
    ELSE IF function \in {5, 6, 15, 16} THEN 4 ELSE 1

compute_data_length_after_meta(m, mt) ==
    LET function == At(m, HEADER_LENGTH)
        length ==
            IF mt = "MSG_INDICATION"
            THEN IF function \in {15, 16} THEN At(m, HEADER_LENGTH + 5)
                 ELSE IF function = 23 THEN At(m, HEADER_LENGTH + 9)
                 ELSE 0
            ELSE IF function <= 4 \/ function = 17 \/ function = 23
                 THEN At(m, HEADER_LENGTH + 1)
                 ELSE 0
    IN  length + CHECKSUM_LENGTH

(***************************************************************************)
(* State.                                                                  *)
(***************************************************************************)
VARIABLES
    ctx,            \* the context: [s, error_recovery, byte_timeout, slave, backend,
                    \* backend_data]
    open,           \* the descriptors that are open
    errno,
    log,            \* the repair calls made, in order
    pc,             \* "idle", "select", "recv", "flush", "done" or "checked"
    msg_type,
    s,              \* the descriptor argument of _modbus_tcp_receive_msg
    msg,            \* the bytes written into the caller's buffer
    msg_length,
    length_to_read,
    step,
    p_tv,           \* the timeout of the next wait: "NULL", "response", "byte"
    rc,             \* the value the call returned
    wire,           \* the bytes the peer sends
    consumed,       \* bytes taken from the socket by raw receives
    eintr,          \* interruptions of the current wait
    entry_s,        \* ctx.s when _modbus_tcp_receive_msg was entered
    failed,         \* the wait or raw receive that failed in this call:
                    \* [op, errno], op "none", "select", "recv" or "recv0"
    partial,        \* a raw receive returned fewer bytes than asked for
    io_after_fail,  \* waits and raw receives issued after such a failure
    read_at_check,  \* consumed when the data length was computed, -1 before
    flush_reads,    \* the reads the running flush has made, modulo FlushCycle
    heap,           \* the allocated transport-parameter blocks, by address
    new_ctx,        \* the context modbus_clone_tcp returned, NoCtx before
    req,            \* the buffer the builders write
    req_length,
    built,          \* requests built on ctx (orig) and on new_ctx (clone), and
                    \* those built on ctx when it was cloned (at_clone)
    patched,        \* length patches applied to req
    call,           \* the last operation called on a context: [op, arg]
    srv,            \* the caller's handle of the passive socket, -1 when none
    sys,            \* the system calls of the last connection operation, in
                    \* order: [name, fd, arg]
    given,          \* the strings given to modbus_new_tcp_pi: [node, service]
    lookup,         \* the strings of the last getaddrinfo: [node_null, node, service]
    ai_list         \* the candidates the last getaddrinfo returned: for each,
                    \* the system call that fails on it, or "ok"

rvars == <<pc, msg_type, s, msg, msg_length, length_to_read, step, p_tv, wire,
           consumed, eintr, entry_s, failed, partial, io_after_fail,
           read_at_check, flush_reads>>

bvars == <<heap, new_ctx, req, req_length, built, patched>>

lvars == <<call, srv, sys, given, lookup, ai_list>>

vars == <<ctx, open, errno, log, rc, rvars, bvars, lvars>>

(***************************************************************************)
(* Connection manager, on a machine m = [ctx, open, errno, log].           *)
(***************************************************************************)
MinFree(op) == CHOOSE f \in Fds \ op : \A g \in Fds \ op : f <= g

\* _modbus_tcp_connect; outcome is what the system calls do:
\* "ok", "socket" or "connect" (the call that fails)
TcpConnect(m, outcome) ==
    LET m1 == [m EXCEPT !.log = Append(@, "connect")] IN
    IF outcome = "socket" \/ Fds \ m.open = {}
    THEN [m1 EXCEPT !.ctx.s = -1, !.errno = "EMFILE", !.rc = -1]
    ELSE IF outcome = "ok"
    THEN [m1 EXCEPT !.ctx.s = MinFree(m.open),
                    !.open = @ \cup {MinFree(m.open)}, !.rc = 0]
    ELSE [m1 EXCEPT !.ctx.s = -1,
                    !.errno = "ECONNREFUSED",
                    !.rc = -1]

ConnectOutcomes == {"ok", "socket", "connect"}

\* a close that shuts down and releases but keeps the handle
TcpClose_KeepHandle(m) ==
    IF m.ctx.s # -1
    THEN [m EXCEPT !.log = @ \o <<"close", "shutdown", "release">>,
                   !.open = @ \ {m.ctx.s}]
    ELSE [m EXCEPT !.log = Append(@, "close")]

\* _modbus_tcp_close; the log takes the call, and the shutdown and the release
\* of the descriptor when one is held
TcpClose(m) ==
    IF m.ctx.s # -1
    THEN [m EXCEPT !.log = @ \o <<"close", "shutdown", "release">>,
                   !.open = @ \ {m.ctx.s},
                   !.ctx.s = -1]
    ELSE [m EXCEPT !.log = Append(@, "close")]

\* _modbus_tcp_flush; the non-blocking receive that finds nothing sets errno
TcpFlush(m, nothing) ==
    [m EXCEPT !.log = Append(@, "flush"),
              !.errno = IF nothing THEN "EAGAIN" ELSE @]

\* _sleep_response_timeout
SleepResponseTimeout(m) == [m EXCEPT !.log = Append(@, "sleep")]

Machine == [ctx |-> ctx, open |-> open, errno |-> errno, log |-> log, rc |-> rc]

SetMachine(m) ==
    /\ ctx' = m.ctx
    /\ open' = m.open
    /\ errno' = m.errno
    /\ log' = m.log


(***************************************************************************)
(* The recovery policy of _modbus_tcp_receive_msg.                         *)
(***************************************************************************)
\* the policy of SelectFailed without "errno = saved_errno"
SelectFailed_NoRestore(m, nothing, outcome) ==
    IF m.ctx.error_recovery
    THEN LET m1 == IF m.errno = "ETIMEDOUT"
                   THEN TcpFlush(SleepResponseTimeout(m), nothing)
                   ELSE IF m.errno = "EBADF"
                   THEN TcpConnect(TcpClose(m), outcome)
                   ELSE m
         IN  [m1 EXCEPT !.rc = -1]
    ELSE [m EXCEPT !.rc = -1]

\* lines 253-268: the readiness wait failed with m.errno
SelectFailed(m, nothing, outcome) ==
    IF m.ctx.error_recovery
    THEN LET saved_errno == m.errno
             m1 == IF m.errno = "ETIMEDOUT"
                   THEN TcpFlush(SleepResponseTimeout(m), nothing)
                   ELSE IF m.errno = "EBADF"
                   THEN TcpConnect(TcpClose(m), outcome)
                   ELSE m
         IN  [m1 EXCEPT !.errno = saved_errno, !.rc = -1]
    ELSE [m EXCEPT !.rc = -1]

\* the policy of RecvFailed without "errno = saved_errno"
RecvFailed_NoRestore(m, outcome) ==
    IF m.ctx.error_recovery /\ m.errno \in {"ECONNRESET", "ECONNREFUSED", "EBADF"}
    THEN LET m1 == TcpConnect(TcpClose(m), outcome)
         IN  [m1 EXCEPT !.rc = -1]
    ELSE [m EXCEPT !.rc = -1]

\* the policy of RecvFailed without the test of the recovery mode
RecvFailed_Always(m, outcome) ==
    IF m.errno \in {"ECONNRESET", "ECONNREFUSED", "EBADF"}
    THEN LET saved_errno == m.errno
             m1 == TcpConnect(TcpClose(m), outcome)
         IN  [m1 EXCEPT !.errno = saved_errno, !.rc = -1]
    ELSE [m EXCEPT !.rc = -1]

\* lines 276-288: the raw receive failed with m.errno
RecvFailed(m, outcome) ==
    IF m.ctx.error_recovery /\ m.errno \in {"ECONNRESET", "ECONNREFUSED", "EBADF"}
    THEN LET saved_errno == m.errno
             m1 == TcpConnect(TcpClose(m), outcome)
         IN  [m1 EXCEPT !.errno = saved_errno, !.rc = -1]
    ELSE [m EXCEPT !.rc = -1]

\* the loop going on after the repair instead of returning
PcAfterFailure_Retry == "select"

\* lines 267 and 287: the call returns once the failure is handled
PcAfterFailure == "done"

(***************************************************************************)
(* The framer's steps.                                                     *)
(***************************************************************************)
\* the bytes going to msg instead of msg + msg_length, in a zeroed buffer
WriteAt_Start(buf, off, bytes) ==
    LET n == off + Len(bytes)
        padded == buf \o [i \in 1 .. (n - Len(buf)) |-> 0]
    IN  bytes \o SubSeq(padded, Len(bytes) + 1, n)

\* line 270: the bytes go to msg + msg_length
WriteAt(buf, off, bytes) ==
    SubSeq(buf, 1, off) \o bytes \o SubSeq(buf, off + Len(bytes) + 1, Len(buf))

\* the test of line 316 off by one
TooMuchData_OffByOne(ml, ltr) == (ml + ltr) > MAX_ADU_LENGTH + 1

\* the test of line 316 left out
TooMuchData_Never(ml, ltr) == FALSE

\* line 316
TooMuchData(ml, ltr) == (ml + ltr) > MAX_ADU_LENGTH

\* lines 313-322: the data length, or the too-much-data error
DataStep(buf, ml, mt) ==
    LET ltr == compute_data_length_after_meta(buf, mt) IN
    IF TooMuchData(ml, ltr)
    THEN [length_to_read |-> ltr, step |-> "_STEP_META", bad |-> TRUE, checked |-> TRUE]
    ELSE [length_to_read |-> ltr, step |-> "_STEP_DATA", bad |-> FALSE, checked |-> TRUE]

\* lines 302-326, with buf, ml and ltr as they are after lines 298-300
NextStep(buf, ml, ltr, st, mt) ==
    IF ltr # 0
    THEN [length_to_read |-> ltr, step |-> st, bad |-> FALSE, checked |-> FALSE]
    ELSE IF st = "_STEP_FUNCTION"
    THEN LET meta == compute_meta_length_after_function(At(buf, HEADER_LENGTH), mt) IN
         IF meta # 0
         THEN [length_to_read |-> meta, step |-> "_STEP_META", bad |-> FALSE,
               checked |-> FALSE]
         ELSE DataStep(buf, ml, mt)
    ELSE IF st = "_STEP_META"
    THEN DataStep(buf, ml, mt)
    ELSE [length_to_read |-> ltr, step |-> st, bad |-> FALSE, checked |-> FALSE]

\* a switch to the inter-byte timeout that does not look whether it is set
NextTimeout_Unchecked(tv, ltr, byte_timeout) ==
    IF ltr > 0 THEN "byte" ELSE tv

\* lines 328-335
NextTimeout(tv, ltr, byte_timeout) ==
    IF ltr > 0 /\ byte_timeout # -1 THEN "byte" ELSE tv

\* line 352: _modbus_tcp_check_integrity
TcpCheckIntegrity(ml) == ml


(***************************************************************************)
(* Construction.                                                           *)
(***************************************************************************)
\* modbus_new_tcp: the context and its transport parameters at address 1
NewTcpCtx(recovery, byte_timeout) ==
    [s |-> -1, error_recovery |-> recovery, byte_timeout |-> byte_timeout,
     slave |-> MODBUS_TCP_SLAVE, backend |-> "tcp", backend_data |-> 1]

NewTcpData == [t_id |-> 0, port |-> 502]

\* modbus_new_tcp_pi: the context of the name/service transport, its
\* parameters at address 1
NewTcpPiCtx(recovery, byte_timeout) ==
    [s |-> -1, error_recovery |-> recovery, byte_timeout |-> byte_timeout,
     slave |-> MODBUS_TCP_SLAVE, backend |-> "tcp_pi", backend_data |-> 1]

NewTcpPiData(node, service) == [t_id |-> 0, node |-> node, service |-> service]

NoFailure == [op |-> "none", errno |-> "0"]

\* no context: its transport parameters are at no address
NoCtx ==
    [s |-> -1, error_recovery |-> FALSE, byte_timeout |-> 0,
     slave |-> MODBUS_TCP_SLAVE, backend |-> "none", backend_data |-> 0]

Cloned == new_ctx.backend_data # 0

\* the locals of a receive call, before any call
NoCall ==
    /\ pc = "idle"
    /\ msg_type = "MSG_INDICATION"
    /\ s = -1
    /\ msg = <<>>
    /\ msg_length = 0
    /\ length_to_read = 0
    /\ step = "_STEP_FUNCTION"
    /\ p_tv = "NULL"
    /\ consumed = 0
    /\ eintr = 0
    /\ entry_s = -1
    /\ failed = NoFailure
    /\ partial = FALSE
    /\ io_after_fail = 0
    /\ read_at_check = -1
    /\ flush_reads = 0

\* no operation was called and no passive socket exists
NoLife ==
    /\ call = [op |-> "none", arg |-> 0]
    /\ srv = -1
    /\ sys = <<>>
    /\ given = [node |-> <<>>, service |-> <<>>]
    /\ lookup = [node_null |-> FALSE, node |-> <<>>, service |-> <<>>]
    /\ ai_list = <<>>

NoBuild ==
    /\ new_ctx = NoCtx
    /\ req = <<>>
    /\ req_length = 0
    /\ built = [orig |-> 0, clone |-> 0, at_clone |-> 0]
    /\ patched = 0

Init ==
    /\ \E recovery \in BOOLEAN, byte_timeout \in {-1, 0} :
           ctx = NewTcpCtx(recovery, byte_timeout)
    /\ heap = (1 :> NewTcpData)
    /\ open = {}
    /\ errno = "0"
    /\ log = <<>>
    /\ rc = 0
    /\ wire = <<>>
    /\ NoCall
    /\ NoBuild
    /\ NoLife

(***************************************************************************)
(* The receive call.                                                       *)
(***************************************************************************)
\* modbus_connect on the idle context that holds no socket; the caller goes on
\* only after a call that succeeded
Connect ==
    /\ pc = "idle"
    /\ ctx.s = -1
    /\ rc = 0
    /\ \E outcome \in ConnectOutcomes :
         LET m == TcpConnect(Machine, outcome) IN
         /\ SetMachine([m EXCEPT !.log = <<>>])
         /\ rc' = m.rc
    /\ UNCHANGED <<rvars, bvars, lvars>>

\* lines 213-249: _modbus_tcp_receive_msg entered with msg_type mt and socket sk
Enter(mt, sk) ==
    /\ pc' = "select"
    /\ msg_type' = mt
    /\ s' = sk
    /\ msg' = <<>>
    /\ msg_length' = 0
    /\ step' = "_STEP_FUNCTION"
    /\ length_to_read' = HEADER_LENGTH + 1
    /\ p_tv' = IF mt = "MSG_INDICATION" THEN "NULL" ELSE "response"
    /\ entry_s' = sk
    /\ log' = <<>>
    /\ wire' \in {WireSeq(w) : w \in Wires}
    /\ UNCHANGED <<consumed, eintr, failed, partial, io_after_fail, read_at_check, flush_reads>>

\* a call of _modbus_tcp_receive_msg on the connected context, for either
\* message type, with the context's socket as s
ReceiveMsg ==
    /\ pc = "idle"
    /\ ctx.s # -1
    /\ \E mt \in MsgTypes : Enter(mt, ctx.s)
    /\ UNCHANGED <<ctx, open, errno, rc, bvars, lvars>>

\* lines 818-834: modbus_tcp_receive with any descriptor sk, on a fresh or a
\* connected context
TcpReceive ==
    /\ pc = "idle"
    /\ rc = 0
    /\ \E sk \in Fds :
         IF sk = 0
         THEN /\ errno' = "EINVAL"
              /\ rc' = -1
              /\ pc' = "done"
              /\ UNCHANGED <<ctx, open, log, msg_type, s, msg, msg_length,
                             length_to_read, step, p_tv, wire, consumed, eintr,
                             entry_s, failed, partial, io_after_fail,
                             read_at_check, flush_reads>>
         ELSE /\ ctx' = [ctx EXCEPT !.s = sk]
              /\ Enter("MSG_INDICATION", sk)
              /\ UNCHANGED <<open, errno, rc>>
    /\ UNCHANGED <<bvars, lvars>>

\* what the flush and the reconnect of a repair can do; one value where the
\* policy makes neither call
FlushOutcomes(e) ==
    IF ctx.error_recovery /\ e = "ETIMEDOUT" THEN BOOLEAN ELSE {FALSE}

RepairOutcomes(e) ==
    IF ctx.error_recovery /\ e \in {"ECONNRESET", "ECONNREFUSED", "EBADF"}
    THEN ConnectOutcomes ELSE {"ok"}

\* a wait or a raw receive is issued
Issue ==
    io_after_fail' = IF failed.op # "none" THEN io_after_fail + 1 ELSE io_after_fail

\* a wait that gives up on every errno
SelectRestarts_Never(e) == FALSE

\* line 103: select returned -1 with errno e; the loop goes round again on
\* EINTR and returns -1 on anything else
SelectRestarts(e) == e = "EINTR"

\* line 121: the socket is readable
SelectReady ==
    /\ pc = "select"
    /\ pc' = "recv"
    /\ eintr' = 0
    /\ Issue
    /\ UNCHANGED <<ctx, open, errno, log, rc, msg_type, s, msg, msg_length,
                   length_to_read, step, p_tv, wire, consumed, entry_s, failed,
                   partial, read_at_check, flush_reads, bvars, lvars>>

\* lines 112 and 116-118, then 253-268: the wait fails with e
SelectFail(e) ==
    /\ pc = "select"
    /\ e = "ETIMEDOUT" => p_tv # "NULL"
    /\ \E nothing \in FlushOutcomes(e), outcome \in RepairOutcomes(e) :
         LET m == SelectFailed([Machine EXCEPT !.errno = e], nothing, outcome) IN
         /\ SetMachine(m)
         /\ rc' = m.rc
    /\ pc' = PcAfterFailure
    /\ failed' = [op |-> "select", errno |-> e]
    /\ eintr' = 0
    /\ Issue
    /\ UNCHANGED <<msg_type, s, msg, msg_length, length_to_read, step, p_tv,
                   wire, consumed, entry_s, partial, read_at_check, flush_reads, bvars, lvars>>

\* lines 101-110: select interrupted by a signal; the descriptor set is made
\* again from ctx->s and the wait restarts
SelectEintr ==
    /\ pc = "select"
    /\ eintr < MaxEintr
    /\ IF SelectRestarts("EINTR")
       THEN /\ eintr' = eintr + 1
            /\ errno' = "EINTR"
            /\ Issue
            /\ UNCHANGED <<ctx, open, log, rc, pc, msg_type, s, msg, msg_length,
                           length_to_read, step, p_tv, wire, consumed, entry_s,
                           failed, partial, read_at_check, flush_reads, bvars, lvars>>
       ELSE SelectFail("EINTR")

\* lines 270-288: the raw receive returns 0, or -1 with e
RecvFail(zero, e) ==
    /\ pc = "recv"
    /\ zero => e = "ECONNRESET"
    /\ \E outcome \in RepairOutcomes(e) :
         LET m == RecvFailed([Machine EXCEPT !.errno = e], outcome) IN
         /\ SetMachine(m)
         /\ rc' = m.rc
    /\ pc' = PcAfterFailure
    /\ failed' = [op |-> IF zero THEN "recv0" ELSE "recv", errno |-> e]
    /\ Issue
    /\ UNCHANGED <<msg_type, s, msg, msg_length, length_to_read, step, p_tv,
                   wire, consumed, eintr, entry_s, partial, read_at_check, flush_reads, bvars, lvars>>

\* a raw receive that asks for one byte more than the step still lacks
RecvRequest_OneMore(ltr) == ltr + 1

\* line 270: the count the raw receive is asked for, the second argument of
\* _modbus_tcp_recv_s
RecvRequest(ltr) == ltr

\* lines 270 and 297-345: the raw receive returns k bytes
RecvBytes(k) ==
    /\ pc = "recv"
    /\ LET buf == WriteAt(msg, msg_length, WireBytes(wire, consumed, k))
           ml == msg_length + k
           nx == NextStep(buf, ml, length_to_read - k, step, msg_type)
       IN  /\ msg' = buf
           /\ msg_length' = ml
           /\ consumed' = consumed + k
           /\ length_to_read' = nx.length_to_read
           /\ step' = nx.step
           /\ read_at_check' = IF nx.checked THEN consumed + k ELSE read_at_check
           /\ IF nx.bad
              THEN /\ errno' = "EMBBADDATA"
                   /\ rc' = -1
                   /\ pc' = "done"
                   /\ p_tv' = p_tv
              ELSE /\ p_tv' = NextTimeout(p_tv, nx.length_to_read, ctx.byte_timeout)
                   /\ errno' = errno
                   /\ IF nx.length_to_read > 0
                      THEN pc' = "select" /\ rc' = rc
                      ELSE pc' = "done" /\ rc' = TcpCheckIntegrity(ml)
    /\ partial' = (partial \/ k < length_to_read)
    /\ Issue
    /\ UNCHANGED <<ctx, open, log, msg_type, s, wire, eintr, entry_s, failed,
                   flush_reads, bvars, lvars>>

\* a check that compares the first byte of the transaction id only
PreCheckConfirmation_FirstByteOnly(rq, rsp, e) ==
    IF At(rq, 0) # At(rsp, 0)
    THEN [rc |-> -1, errno |-> "EMBBADDATA"]
    ELSE [rc |-> 0, errno |-> e]

\* lines 357-371: _modbus_tcp_pre_check_confirmation
PreCheckConfirmation(rq, rsp, e) ==
    IF At(rq, 0) # At(rsp, 0) \/ At(rq, 1) # At(rsp, 1)
    THEN [rc |-> -1, errno |-> "EMBBADDATA"]
    ELSE [rc |-> 0, errno |-> e]

\* the received confirmation is checked against a request whose transaction
\* id is the confirmation's or differs from it in either byte
PreCheck ==
    /\ pc = "done"
    /\ msg_type = "MSG_CONFIRMATION"
    /\ rc >= 0
    /\ \E d0 \in {0, 1}, d1 \in {0, 1} :
         /\ req' = <<(At(msg, 0) + d0) % 256, (At(msg, 1) + d1) % 256, 0, 0, 0, 6,
                     ctx.slave, At(msg, HEADER_LENGTH), 0, 0, 0, 1>>
         /\ LET r == PreCheckConfirmation(req', msg, errno) IN
              rc' = r.rc /\ errno' = r.errno
    /\ pc' = "checked"
    /\ UNCHANGED <<ctx, open, log, msg_type, s, msg, msg_length, length_to_read,
                   step, p_tv, wire, consumed, eintr, entry_s, failed, partial,
                   io_after_fail, read_at_check, flush_reads, heap, new_ctx, req_length, built,
                   patched, lvars>>

SelectErrnos == {"ETIMEDOUT", "EBADF", "EINVAL"}

RecvErrnos == {"ECONNRESET", "ECONNREFUSED", "EBADF", "EAGAIN"}

Next ==
    \/ Connect
    \/ ReceiveMsg
    \/ TcpReceive
    \/ SelectEintr
    \/ SelectReady
    \/ \E e \in SelectErrnos : SelectFail(e)
    \/ \E zero \in BOOLEAN, e \in RecvErrnos : RecvFail(zero, e)
    \/ \E k \in 1 .. RecvRequest(length_to_read) : RecvBytes(k)
    \/ PreCheck

Spec == Init /\ [][Next]_vars

TypeOK ==
    /\ pc \in {"idle", "select", "recv", "flush", "done", "checked"}
    /\ msg_length = Len(msg)
    /\ ctx.s \in Fds \cup {-1}


(***************************************************************************)
(* The framer: claims C1 to C3.                                            *)
(***************************************************************************)
\* _modbus_tcp_receive_msg was entered
CallEntered == wire # <<>>

\* the framer run on the byte sequence ws with every raw receive returning all
\* the bytes it asked for
RECURSIVE Contiguous(_, _, _, _, _)
Contiguous(ws, mt, buf, ltr, st) ==
    IF ltr = 0
    THEN [msg |-> buf, rc |-> Len(buf)]
    ELSE LET buf2 == buf \o SubSeq(ws, Len(buf) + 1, Len(buf) + ltr)
             nx == NextStep(buf2, Len(buf2), 0, st, mt)
         IN  IF nx.bad
             THEN [msg |-> buf2, rc |-> -1]
             ELSE Contiguous(ws, mt, buf2, nx.length_to_read, nx.step)

ContiguousReceive(ws, mt) ==
    Contiguous(ws, mt, <<>>, HEADER_LENGTH + 1, "_STEP_FUNCTION")

\* C1: a well-formed message whose bytes arrive in any fragments fills the
\* buffer with the same bytes, and returns the same length, as the message
\* delivered whole.
C1_FragmentsReassemble ==
    (pc = "done" /\ CallEntered /\ failed.op = "none"
        /\ ContiguousReceive(wire, msg_type).rc >= 0)
    => /\ rc = ContiguousReceive(wire, msg_type).rc
       /\ msg = ContiguousReceive(wire, msg_type).msg
       /\ msg = SubSeq(wire, 1, rc)

\* a message of the maximum length was reassembled from fragments
C1_Witness ==
    /\ pc = "done"
    /\ partial
    /\ failed.op = "none"
    /\ rc = MAX_ADU_LENGTH
    /\ msg = SubSeq(wire, 1, MAX_ADU_LENGTH)

\* the data length was computed and msg_length + length_to_read exceeded the
\* maximum ADU length
DataLengthTooLarge ==
    /\ read_at_check # -1
    /\ read_at_check + compute_data_length_after_meta(msg, msg_type) > MAX_ADU_LENGTH

\* C2: when the computed data length makes the total exceed the maximum ADU
\* length, the call fails with EMBBADDATA and no raw receive follows: the bytes
\* consumed are those of the function-code and metadata steps.
C2_TooMuchDataBeforeRead ==
    DataLengthTooLarge
    => /\ pc = "done"
       /\ rc = -1
       /\ errno = "EMBBADDATA"
       /\ consumed = read_at_check
       /\ consumed = HEADER_LENGTH + 1
              + compute_meta_length_after_function(At(msg, HEADER_LENGTH), msg_type)
       /\ msg_length = consumed

\* a confirmation announcing one byte too many was rejected after 9 bytes
C2_Witness ==
    /\ DataLengthTooLarge
    /\ pc = "done"
    /\ errno = "EMBBADDATA"
    /\ msg_type = "MSG_CONFIRMATION"
    /\ consumed + At(msg, HEADER_LENGTH + 1) = MAX_ADU_LENGTH + 1

\* C3: in every state of a receive call the bytes written into the buffer are
\* at most the maximum ADU length, and so is a returned length.
C3_LengthBounded ==
    /\ msg_length <= MAX_ADU_LENGTH
    /\ Len(msg) <= MAX_ADU_LENGTH
    /\ pc \in {"select", "recv"} => msg_length + length_to_read <= MAX_ADU_LENGTH
    /\ (pc = "done" /\ CallEntered) => rc <= MAX_ADU_LENGTH

\* a call returned the maximum ADU length
C3_Witness ==
    /\ pc = "done"
    /\ rc = MAX_ADU_LENGTH
    /\ msg_length = MAX_ADU_LENGTH
    /\ msg_type = "MSG_INDICATION"


(***************************************************************************)
(* The recovery policy: claims C4 to C7.                                   *)
(***************************************************************************)
\* the failure is one the policy repairs by sleep and flush
TimedOutWait == failed.op = "select" /\ failed.errno = "ETIMEDOUT"

\* the failure is one the policy repairs by close and reconnect
BrokenLink ==
    \/ failed.op = "select" /\ failed.errno = "EBADF"
    \/ /\ failed.op \in {"recv", "recv0"}
       /\ failed.errno \in {"ECONNRESET", "ECONNREFUSED", "EBADF"}

\* C4: with link recovery, a timed-out wait is followed by the sleep, then the
\* flush, then the return of -1 with errno ETIMEDOUT; nothing is closed or
\* connected.
C4_TimeoutSleepFlush ==
    (ctx.error_recovery /\ TimedOutWait)
    => /\ log = <<"sleep", "flush">>
       /\ pc = "done"
       /\ rc = -1
       /\ errno = "ETIMEDOUT"
       /\ ctx.s = entry_s

\* a wait between two bytes of a message timed out and was repaired
C4_Witness ==
    /\ ctx.error_recovery
    /\ TimedOutWait
    /\ pc = "done"
    /\ log = <<"sleep", "flush">>
    /\ msg_length > 0
    /\ p_tv = "byte"

\* C5: with link recovery, a bad descriptor in the wait, or a reset, a refusal
\* or a bad descriptor in the read, is followed by the close and one connect,
\* and the call returns -1 with the original errno whether the connect
\* succeeded or failed.
C5_CloseReconnect ==
    (ctx.error_recovery /\ BrokenLink)
    => /\ log = <<"close", "shutdown", "release", "connect">>
       /\ pc = "done"
       /\ rc = -1
       /\ errno = failed.errno
       /\ ctx.s # -1 => ctx.s \in open

\* the read failed with a bad descriptor and the reconnect failed too
C5_Witness ==
    /\ ctx.error_recovery
    /\ failed = [op |-> "recv", errno |-> "EBADF"]
    /\ log = <<"close", "shutdown", "release", "connect">>
    /\ ctx.s = -1
    /\ errno = "EBADF"
    /\ rc = -1

\* C6: a repair is made only with link recovery and for the listed failures;
\* every other failing call leaves the socket handle as it was and makes no
\* flush, close or connect.
C6_RepairOnlyListed ==
    /\ (CallEntered /\ log # <<>>)
       => (ctx.error_recovery /\ (TimedOutWait \/ BrokenLink))
    /\ (CallEntered /\ pc \in {"done", "checked"} /\ rc = -1
           /\ ~(ctx.error_recovery /\ (TimedOutWait \/ BrokenLink)))
       => (ctx.s = entry_s /\ log = <<>>)

\* without link recovery a read failed with a bad descriptor: nothing repaired
C6_Witness ==
    /\ ~ctx.error_recovery
    /\ failed = [op |-> "recv", errno |-> "EBADF"]
    /\ pc = "done"
    /\ rc = -1
    /\ ctx.s = entry_s
    /\ log = <<>>

\* C7: once a wait (not an interrupted one) or a raw receive has failed, the
\* call returns -1 with no further wait or receive, also after a successful
\* reconnect.
C7_NoRetryAfterFailure ==
    failed.op # "none"
    => /\ pc = "done"
       /\ rc = -1
       /\ io_after_fail = 0

\* the reconnect succeeded and the call still failed
C7_Witness ==
    /\ failed.op = "recv"
    /\ log = <<"close", "shutdown", "release", "connect">>
    /\ ctx.s # -1
    /\ pc = "done"
    /\ rc = -1


(***************************************************************************)
(* The request builder and the transaction-id counter.                     *)
(***************************************************************************)
\* buf with the C byte buf[i] set to the low eight bits of v
Store(buf, i, v) == [buf EXCEPT ![i + 1] = v % 256]

\* the transaction id written before the counter is increased
BuildRequestBasis_WriteThenIncrement(data, slave, function, addr, nb, rq) ==
    LET t_id == IF data.t_id < UINT16_MAX THEN data.t_id + 1 ELSE 0
        r == Store(Store(Store(Store(Store(Store(Store(Store(Store(Store(rq,
                 0, data.t_id \div 256), 1, data.t_id % 256), 2, 0), 3, 0),
                 6, slave), 7, function), 8, addr \div 256), 9, addr % 256),
                 10, nb \div 256), 11, nb % 256)
    IN  [data |-> [data EXCEPT !.t_id = t_id], req |-> r, rc |-> PRESET_REQ_LENGTH]

\* a counter that is increased without the wrap
BuildRequestBasis_NoWrap(data, slave, function, addr, nb, rq) ==
    LET t_id == data.t_id + 1
        r == Store(Store(Store(Store(Store(Store(Store(Store(Store(Store(rq,
                 0, t_id \div 256), 1, t_id % 256), 2, 0), 3, 0),
                 6, slave), 7, function), 8, addr \div 256), 9, addr % 256),
                 10, nb \div 256), 11, nb % 256)
    IN  [data |-> [data EXCEPT !.t_id = t_id], req |-> r, rc |-> PRESET_REQ_LENGTH]

\* lines 125-154: _modbus_tcp_build_request_basis on the transport parameters
\* data of a context with unit identifier slave
BuildRequestBasis(data, slave, function, addr, nb, rq) ==
    LET t_id == IF data.t_id < UINT16_MAX THEN data.t_id + 1 ELSE 0
        r == Store(Store(Store(Store(Store(Store(Store(Store(Store(Store(rq,
                 0, t_id \div 256), 1, t_id % 256), 2, 0), 3, 0),
                 6, slave), 7, function), 8, addr \div 256), 9, addr % 256),
                 10, nb \div 256), 11, nb % 256)
    IN  [data |-> [data EXCEPT !.t_id = t_id], req |-> r, rc |-> PRESET_REQ_LENGTH]

\* lines 180-183: _modbus_tcp_prepare_response_tid
PrepareResponseTid(rq) == At(rq, 0) * 256 + At(rq, 1)

\* the length field written low byte first
SendMsgPre_LittleEndian(rq, rq_length) ==
    LET mbap_length == rq_length - 6 IN
    [req |-> Store(Store(rq, 4, mbap_length % 256), 5, mbap_length \div 256),
     rc |-> rq_length]

\* lines 185-194: _modbus_tcp_send_msg_pre
SendMsgPre(rq, rq_length) ==
    LET mbap_length == rq_length - 6 IN
    [req |-> Store(Store(rq, 4, mbap_length \div 256), 5, mbap_length % 256),
     rc |-> rq_length]

\* the clone keeping the transport parameters of the original: the second
\* allocation and copy left out
CloneTcp_Shared(c, hp) == [ctx |-> c, heap |-> hp]

\* lines 836-843: modbus_clone_tcp; the new block is at the next free address
CloneTcp(c, hp) ==
    LET a == Cardinality(DOMAIN hp) + 1 IN
    [ctx |-> [c EXCEPT !.backend_data = a],
     heap |-> [x \in DOMAIN hp \cup {a} |->
                  IF x = a THEN hp[c.backend_data] ELSE hp[x]]]

\* the caller's request buffer before the first build
FreshRequest == [i \in 1 .. PRESET_REQ_LENGTH |-> 170]

BuildInputs == {[function |-> 3, addr |-> 4660, nb |-> 1],
                [function |-> 16, addr |-> 255, nb |-> 300]}

InitBuild ==
    /\ ctx = NewTcpCtx(FALSE, 0)
    /\ heap = (1 :> NewTcpData)
    /\ open = {}
    /\ errno = "0"
    /\ log = <<>>
    /\ rc = 0
    /\ wire = <<>>
    /\ NoCall
    /\ new_ctx = NoCtx
    /\ req = FreshRequest
    /\ req_length = 0
    /\ built = [orig |-> 0, clone |-> 0, at_clone |-> 0]
    /\ patched = 0
    /\ NoLife

\* a request is built on the original (which = "orig") or on the clone
Build(which, max) ==
    /\ built.orig + built.clone < max
    /\ which = "clone" => Cloned
    /\ \E in \in BuildInputs :
         LET c == IF which = "orig" THEN ctx ELSE new_ctx
             r == BuildRequestBasis(heap[c.backend_data], c.slave,
                                    in.function, in.addr, in.nb, req)
         IN  /\ heap' = [heap EXCEPT ![c.backend_data] = r.data]
             /\ req' = r.req
             /\ req_length' = r.rc
             /\ rc' = r.rc
    /\ built' = [built EXCEPT ![which] = @ + 1]
    /\ UNCHANGED <<ctx, open, errno, log, rvars, new_ctx, patched, lvars>>

\* modbus_clone_tcp on the original
Clone ==
    /\ new_ctx = NoCtx
    /\ LET r == CloneTcp(ctx, heap) IN
         /\ new_ctx' = r.ctx
         /\ heap' = r.heap
    /\ built' = [built EXCEPT !.at_clone = built.orig]
    /\ UNCHANGED <<ctx, open, errno, log, rc, rvars, req, req_length, patched>>

NextBuild == Build("orig", MaxBuilds)

SpecBuild == InitBuild /\ [][NextBuild]_vars

NextClone ==
    \/ Clone /\ UNCHANGED lvars
    \/ Build("orig", MaxCloneBuilds)
    \/ Build("clone", MaxCloneBuilds)

SpecClone == InitBuild /\ [][NextClone]_vars

\* a message of L bytes whose length field holds g in both bytes
PatchInput(L, g) ==
    [i \in 1 .. L |-> IF i \in {5, 6} THEN g ELSE (7 * i) % 256]

InitPatch ==
    /\ ctx = NewTcpCtx(FALSE, 0)
    /\ heap = (1 :> NewTcpData)
    /\ open = {}
    /\ errno = "0"
    /\ log = <<>>
    /\ rc = 0
    /\ wire = <<>>
    /\ NoCall
    /\ new_ctx = NoCtx
    /\ \E L \in 6 .. MAX_ADU_LENGTH, g \in {0, 1, 255} :
         /\ req = PatchInput(L, g)
         /\ req_length = L
    /\ built = [orig |-> 0, clone |-> 0, at_clone |-> 0]
    /\ patched = 0
    /\ NoLife

\* _modbus_tcp_send_msg_pre on the request
Patch ==
    /\ patched < MaxPatches
    /\ LET r == SendMsgPre(req, req_length) IN
         /\ req' = r.req
         /\ rc' = r.rc
    /\ patched' = patched + 1
    /\ UNCHANGED <<ctx, open, errno, log, rvars, heap, new_ctx, req_length, built,
                   lvars>>

NextPatch == Patch

SpecPatch == InitPatch /\ [][NextPatch]_vars

(***************************************************************************)
(* The builders: claims C8 to C10.                                         *)
(***************************************************************************)
\* the transaction id in bytes 0-1 of the request
TidOf(rq) == At(rq, 0) * 256 + At(rq, 1)

\* C8 as stated: the k-th request built on a fresh context carries
\* (k - 1) mod 65536, the first one 0.
C8_FirstIdZero ==
    built.orig >= 1 => TidOf(req) = (built.orig - 1) % (UINT16_MAX + 1)

\* C8 amended: the k-th request built on a fresh context carries k mod 65536:
\* the first one 1, the 65535th 65535, the 65536th 0.
C8_KthIdIsK ==
    built.orig >= 1
    => /\ TidOf(req) = built.orig % (UINT16_MAX + 1)
       /\ heap[ctx.backend_data].t_id = TidOf(req)
       /\ At(req, 0) = (built.orig % (UINT16_MAX + 1)) \div 256
       /\ At(req, 1) = built.orig % 256

\* the counter has wrapped: the 65536th request carries 0
C8_Witness ==
    /\ built.orig = UINT16_MAX + 1
    /\ TidOf(req) = 0
    /\ heap[ctx.backend_data].t_id = 0

\* C9: the clone has its own transport parameters; its counter starts at the
\* original's value when cloned, and the builds on one context move only that
\* context's counter and leave every other transport parameter alone.
C9_CloneIndependent ==
    /\ heap[ctx.backend_data].t_id = built.orig % (UINT16_MAX + 1)
    /\ heap[ctx.backend_data].port = NewTcpData.port
    /\ Cloned
       => /\ new_ctx.backend_data # ctx.backend_data
          /\ heap[new_ctx.backend_data].t_id
                = (built.at_clone + built.clone) % (UINT16_MAX + 1)
          /\ heap[new_ctx.backend_data].port = NewTcpData.port

\* requests were built on both contexts after the clone and the counters differ
C9_Witness ==
    /\ Cloned
    /\ built.at_clone = 1
    /\ built.orig = 2
    /\ built.clone = 3
    /\ heap[ctx.backend_data].t_id = 2
    /\ heap[new_ctx.backend_data].t_id = 4

\* C10: a length patch of a message of L bytes, 6 <= L <= maximum ADU length,
\* writes L - 6 big-endian into bytes 4-5, returns L and changes no other
\* byte; a patch after the first changes nothing.
C10_LengthPatch ==
    [][patched' = patched + 1
       => /\ At(req', 4) = (req_length - 6) \div 256
          /\ At(req', 5) = (req_length - 6) % 256
          /\ At(req', 4) * 256 + At(req', 5) = req_length - 6
          /\ \A i \in 1 .. Len(req) : i \notin {5, 6} => req'[i] = req[i]
          /\ Len(req') = Len(req)
          /\ rc' = req_length
          /\ patched >= 1 => req' = req]_vars

\* a message of the maximum length was patched more than once
C10_Witness ==
    /\ patched = 2
    /\ req_length = MAX_ADU_LENGTH
    /\ At(req, 4) = 0
    /\ At(req, 5) = MAX_ADU_LENGTH - 6
    /\ rc = MAX_ADU_LENGTH

(***************************************************************************)
(* The transaction id check on its own: claim C11.                         *)
(***************************************************************************)
\* requests and responses that differ in the transaction id bytes and in
\* bytes after them (unit id, function code)
CheckMessages ==
    {<<a, b, 0, 0, 0, 6, u, f, 0, 0, 0, 1>> :
        a \in {0, 1, 255}, b \in {0, 1, 255}, u \in {1, MODBUS_TCP_SLAVE},
        f \in {3, 4}}

InitCheck ==
    /\ \E recovery \in BOOLEAN, byte_timeout \in {-1, 0} :
           ctx = NewTcpCtx(recovery, byte_timeout)
    /\ heap = (1 :> NewTcpData)
    /\ open = {}
    /\ errno = "0"
    /\ log = <<>>
    /\ rc = 0
    /\ wire = <<>>
    /\ pc = "idle"
    /\ msg_type = "MSG_CONFIRMATION"
    /\ s = -1
    /\ msg \in CheckMessages
    /\ msg_length = PRESET_REQ_LENGTH
    /\ length_to_read = 0
    /\ step = "_STEP_FUNCTION"
    /\ p_tv = "NULL"
    /\ consumed = 0
    /\ eintr = 0
    /\ entry_s = -1
    /\ failed = NoFailure
    /\ partial = FALSE
    /\ io_after_fail = 0
    /\ read_at_check = -1
    /\ flush_reads = 0
    /\ new_ctx = NoCtx
    /\ req \in CheckMessages
    /\ req_length = PRESET_REQ_LENGTH
    /\ built = [orig |-> 0, clone |-> 0, at_clone |-> 0]
    /\ patched = 0
    /\ NoLife

\* _modbus_tcp_pre_check_confirmation on the request and the response
CheckConfirmation ==
    /\ pc = "idle"
    /\ LET r == PreCheckConfirmation(req, msg, errno) IN
         rc' = r.rc /\ errno' = r.errno
    /\ pc' = "checked"
    /\ UNCHANGED <<ctx, open, log, msg_type, s, msg, msg_length, length_to_read,
                   step, p_tv, wire, consumed, eintr, entry_s, failed, partial,
                   io_after_fail, read_at_check, flush_reads, bvars, lvars>>

NextCheck == CheckConfirmation

SpecCheck == InitCheck /\ [][NextCheck]_vars

\* C11: the transaction id check returns 0 exactly when bytes 0 and 1 of the
\* request equal bytes 0 and 1 of the response, whatever the other bytes are,
\* and otherwise returns -1 with EMBBADDATA; it changes neither message nor
\* the context.
C11_PreCheckTid ==
    [][pc = "idle" /\ pc' = "checked"
       => /\ rc' = 0 <=> (At(req, 0) = At(msg, 0) /\ At(req, 1) = At(msg, 1))
          /\ rc' # 0 => (rc' = -1 /\ errno' = "EMBBADDATA")
          /\ rc' = 0 => errno' = errno
          /\ req' = req
          /\ msg' = msg
          /\ ctx' = ctx
          /\ heap' = heap
          /\ open' = open]_vars

\* a response that differs from the request in the second byte of the
\* transaction id only was rejected
C11_Witness ==
    /\ pc = "checked"
    /\ At(req, 0) = At(msg, 0)
    /\ At(req, 1) # At(msg, 1)
    /\ \A i \in 3 .. PRESET_REQ_LENGTH : req[i] = msg[i]
    /\ rc = -1
    /\ errno = "EMBBADDATA"

(***************************************************************************)
(* The unit identifier: claim C12.                                         *)
(***************************************************************************)
\* a set that stores whatever it is given
SetSlave_AcceptAll(c, slave, e) ==
    [ctx |-> [c EXCEPT !.slave = slave], rc |-> 0, errno |-> e]

\* _modbus_set_slave, the set_slave entry of both backends
SetSlave(c, slave, e) ==
    IF slave >= 0 /\ slave <= 247
    THEN [ctx |-> [c EXCEPT !.slave = slave], rc |-> 0, errno |-> e]
    ELSE IF slave = MODBUS_TCP_SLAVE
    THEN [ctx |-> [c EXCEPT !.slave = slave], rc |-> 0, errno |-> e]
    ELSE [ctx |-> c, rc |-> -1, errno |-> "EINVAL"]

\* the int arguments tried: both ends of the range, its neighbours, the
\* sentinel and its neighbours, a negative and a value above one byte
SlaveInputs == {-1, 0, 1, 2, 246, 247, 248, 254, 255, 256, 511}

InitSlave ==
    /\ \E recovery \in BOOLEAN, byte_timeout \in {-1, 0} :
         \/ /\ ctx = NewTcpCtx(recovery, byte_timeout)
            /\ heap = (1 :> NewTcpData)
         \/ /\ ctx = NewTcpPiCtx(recovery, byte_timeout)
            /\ heap = (1 :> NewTcpPiData(<<"h">>, <<"5", "0", "2">>))
    /\ open = {}
    /\ errno = "0"
    /\ log = <<>>
    /\ rc = 0
    /\ wire = <<>>
    /\ NoCall
    /\ NoBuild
    /\ NoLife

\* modbus_set_slave with any of the arguments
SetSlaveCall ==
    \E slave \in SlaveInputs :
        LET r == SetSlave(ctx, slave, errno) IN
        /\ ctx' = r.ctx
        /\ rc' = r.rc
        /\ errno' = r.errno
        /\ call' = [op |-> "set_slave", arg |-> slave]
        /\ UNCHANGED <<open, log, rvars, bvars, srv, sys, given, lookup, ai_list>>

NextSlave == SetSlaveCall

SpecSlave == InitSlave /\ [][NextSlave]_vars

ValidSlave(v) == (v >= 0 /\ v <= 247) \/ v = 255

\* C12: with either transport kind the unit identifier is in [0,247] or is
\* 0xFF in every state; a set with such a value returns 0 and stores it, a set
\* with any other integer returns -1 with EINVAL and leaves the stored unit
\* identifier unchanged.
C12_UnitId ==
    /\ [](ValidSlave(ctx.slave))
    /\ [][call'.op = "set_slave"
          => IF ValidSlave(call'.arg)
             THEN rc' = 0 /\ ctx'.slave = call'.arg
             ELSE rc' = -1 /\ errno' = "EINVAL" /\ ctx'.slave = ctx.slave]_vars

\* on the name/service transport unit identifier 247 was set and then 256
\* was refused
C12_Witness ==
    /\ ctx.backend = "tcp_pi"
    /\ call = [op |-> "set_slave", arg |-> 256]
    /\ rc = -1
    /\ errno = "EINVAL"
    /\ ctx.slave = 247

(***************************************************************************)
(* The life of a connection: close, clone, listen and accept.              *)
(* Claims C13, C14 and C16.                                                *)
(***************************************************************************)
\* a system call: its name, the descriptor it is given or returns, and its
\* other argument
Sys(name, fd, arg) == [name |-> name, fd |-> fd, arg |-> arg]

\* modbus_tcp_listen; outcome is "ok" or the system call that fails.  The
\* result is the machine and the handle returned to the caller.
ListenOutcomes == {"ok", "socket", "setsockopt", "bind", "listen"}

TcpListen(m, port, outcome) ==
    IF outcome = "socket" \/ Fds \ m.open = {}
    THEN [m |-> [m EXCEPT !.errno = "EMFILE", !.rc = -1],
          sys |-> <<Sys("socket", -1, 0)>>]
    ELSE LET new_s == MinFree(m.open) IN
         IF outcome = "setsockopt"
         THEN [m |-> [m EXCEPT !.errno = "EINVAL", !.rc = -1],
               sys |-> <<Sys("socket", new_s, 0), Sys("close", new_s, 0)>>]
         ELSE IF outcome = "bind"
         THEN [m |-> [m EXCEPT !.errno = "EADDRINUSE", !.rc = -1],
               sys |-> <<Sys("socket", new_s, 0), Sys("bind", new_s, port),
                         Sys("close", new_s, 0)>>]
         ELSE IF outcome = "listen"
         THEN [m |-> [m EXCEPT !.errno = "EADDRINUSE", !.rc = -1],
               sys |-> <<Sys("socket", new_s, 0), Sys("bind", new_s, port),
                         Sys("listen", new_s, 0), Sys("close", new_s, 0)>>]
         ELSE [m |-> [m EXCEPT !.open = @ \cup {new_s}, !.rc = new_s],
               sys |-> <<Sys("socket", new_s, 0), Sys("bind", new_s, port),
                         Sys("listen", new_s, 0)>>]

\* accept(2) on the descriptor sv: the descriptor of the accepted connection
\* or -1, and errno.  It fails when sv is not open, when no descriptor is
\* free, and when the system says so (completes = FALSE).
SysAccept(op, sv, completes, e) ==
    IF sv \notin op THEN [fd |-> -1, errno |-> "EBADF"]
    ELSE IF Fds \ op = {} THEN [fd |-> -1, errno |-> "EMFILE"]
    ELSE IF ~completes THEN [fd |-> -1, errno |-> "ECONNABORTED"]
    ELSE [fd |-> MinFree(op), errno |-> e]

\* an accept that leaves the passive socket alone when it fails
TcpAccept_KeepPassive(m, sv, completes) ==
    LET a == SysAccept(m.open, sv, completes, m.errno)
        m1 == [m EXCEPT !.ctx.s = a.fd, !.errno = a.errno] IN
    IF a.fd = -1
    THEN [m |-> [m1 EXCEPT !.rc = -1], srv |-> sv,
          sys |-> <<Sys("accept", sv, a.fd)>>]
    ELSE [m |-> [m1 EXCEPT !.open = @ \cup {a.fd}, !.rc = a.fd], srv |-> sv,
          sys |-> <<Sys("accept", sv, a.fd)>>]

\* modbus_tcp_accept with the caller's handle sv: the machine, the caller's
\* handle afterwards and the system calls made
TcpAccept(m, sv, completes) ==
    LET a == SysAccept(m.open, sv, completes, m.errno)
        m1 == [m EXCEPT !.ctx.s = a.fd, !.errno = a.errno] IN
    IF m1.ctx.s = -1
    THEN [m |-> [m1 EXCEPT !.open = @ \ {sv}, !.rc = -1], srv |-> -1,
          sys |-> <<Sys("accept", sv, a.fd), Sys("close", sv, 0)>>]
    ELSE [m |-> [m1 EXCEPT !.open = @ \cup {a.fd}, !.rc = m1.ctx.s], srv |-> sv,
          sys |-> <<Sys("accept", sv, a.fd)>>]

\* modbus_tcp_pi_accept: no early return, the value returned is ctx->s
TcpPiAccept(m, sv, completes) ==
    LET a == SysAccept(m.open, sv, completes, m.errno)
        m1 == [m EXCEPT !.ctx.s = a.fd, !.errno = a.errno,
                        !.open = IF a.fd = -1 THEN @ ELSE @ \cup {a.fd}]
        failed_accept == m1.ctx.s = -1
        m2 == IF failed_accept THEN [m1 EXCEPT !.open = @ \ {sv}] ELSE m1 IN
    [m |-> [m2 EXCEPT !.rc = m2.ctx.s],
     srv |-> IF failed_accept THEN -1 ELSE sv,
     sys |-> IF failed_accept
             THEN <<Sys("accept", sv, a.fd), Sys("close", sv, 0)>>
             ELSE <<Sys("accept", sv, a.fd)>>]

\* modbus_connect on the address-based context that holds no socket
ConnectCall ==
    /\ ctx.s = -1
    /\ \E outcome \in ConnectOutcomes :
         LET m == TcpConnect([Machine EXCEPT !.log = <<>>], outcome) IN
         /\ SetMachine(m)
         /\ rc' = m.rc
    /\ call' = [op |-> "connect", arg |-> 0]
    /\ UNCHANGED <<rvars, bvars, srv, sys, given, lookup, ai_list>>

\* modbus_close on the original
CloseCall ==
    /\ LET m == TcpClose([Machine EXCEPT !.log = <<>>]) IN SetMachine(m)
    /\ call' = [op |-> "close", arg |-> 0]
    /\ UNCHANGED <<rc, rvars, bvars, srv, sys, given, lookup, ai_list>>

\* modbus_close on the clone
CloseClone ==
    /\ Cloned
    /\ LET m == TcpClose([Machine EXCEPT !.ctx = new_ctx, !.log = <<>>]) IN
         /\ new_ctx' = m.ctx
         /\ open' = m.open
         /\ errno' = m.errno
         /\ log' = m.log
    /\ call' = [op |-> "close_clone", arg |-> 0]
    /\ UNCHANGED <<ctx, rc, rvars, heap, req, req_length, built, patched, srv, sys,
                   given, lookup, ai_list>>

\* modbus_clone_tcp on the original, connected or not
CloneCall ==
    /\ Clone
    /\ call' = [op |-> "clone", arg |-> 0]
    /\ UNCHANGED <<srv, sys, given, lookup, ai_list>>

\* modbus_tcp_listen by a caller that holds no passive socket
ListenCall ==
    /\ srv = -1
    /\ \E outcome \in ListenOutcomes :
         LET r == TcpListen([Machine EXCEPT !.log = <<>>],
                            heap[ctx.backend_data].port, outcome) IN
         /\ SetMachine(r.m)
         /\ rc' = r.m.rc
         /\ srv' = r.m.rc
         /\ sys' = r.sys
    /\ call' = [op |-> "listen", arg |-> 0]
    /\ UNCHANGED <<rvars, bvars, given, lookup, ai_list>>

\* modbus_tcp_accept or modbus_tcp_pi_accept with the caller's handle, which
\* is -1 after a failure
AcceptCall(pi) ==
    /\ \E completes \in BOOLEAN :
         LET m0 == [Machine EXCEPT !.log = <<>>]
             r == IF pi THEN TcpPiAccept(m0, srv, completes)
                  ELSE TcpAccept(m0, srv, completes) IN
         /\ SetMachine(r.m)
         /\ rc' = r.m.rc
         /\ srv' = r.srv
         /\ sys' = r.sys
    /\ call' = [op |-> IF pi THEN "pi_accept" ELSE "accept", arg |-> 0]
    /\ UNCHANGED <<rvars, bvars, given, lookup, ai_list>>

NextLife ==
    \/ ConnectCall
    \/ CloseCall
    \/ CloseClone
    \/ CloneCall
    \/ ListenCall
    \/ AcceptCall(FALSE)
    \/ AcceptCall(TRUE)

SpecLife == InitBuild /\ [][NextLife]_vars

\* the number of entries e in the log lg
Count(lg, e) == Cardinality({i \in 1 .. Len(lg) : lg[i] = e})

\* C13: after a close the context holds no socket; a socket that was held is
\* shut down and released exactly once; a close when no socket is held makes
\* no shutdown and no release and leaves the context unchanged, so a second
\* close changes nothing.
C13_CloseIdempotent ==
    [][call'.op = "close"
       => /\ ctx'.s = -1
          /\ IF ctx.s # -1
             THEN /\ Count(log', "shutdown") = 1
                  /\ Count(log', "release") = 1
                  /\ open' = open \ {ctx.s}
             ELSE /\ Count(log', "shutdown") = 0
                  /\ Count(log', "release") = 0
                  /\ open' = open
                  /\ ctx' = ctx
          /\ LET m1 == [ctx |-> ctx', open |-> open', errno |-> errno',
                        log |-> <<>>, rc |-> rc']
                 m2 == TcpClose(m1) IN
               /\ m2.ctx = m1.ctx
               /\ m2.open = m1.open
               /\ m2.errno = m1.errno
               /\ Count(m2.log, "shutdown") = 0
               /\ Count(m2.log, "release") = 0]_vars

\* a connected context was closed: its descriptor was shut down and released
C13_Witness ==
    /\ call.op = "close"
    /\ log = <<"close", "shutdown", "release">>
    /\ ctx.s = -1
    /\ open = {}
    /\ ~Cloned

\* C14: after a clone no socket is held by both the original and the clone,
\* and a handle that either of them records is an open socket: closing the
\* connection of one never closes the socket of the other.
C14_CloneOwnsSocket ==
    Cloned
    => /\ ctx.s # -1 => ctx.s # new_ctx.s
       /\ ctx.s # -1 => ctx.s \in open
       /\ new_ctx.s # -1 => new_ctx.s \in open

\* the original was connected, cloned and closed: the clone records a
\* descriptor that is no longer open
C14_Witness ==
    /\ Cloned
    /\ call.op = "close"
    /\ ctx.s = -1
    /\ new_ctx.s # -1
    /\ new_ctx.s \notin open

\* C16: for both accept variants, when accept(2) returns a descriptor it is
\* stored in the context and returned, and the caller's passive handle and
\* the passive socket are left as they were; when accept(2) fails the passive
\* socket is closed, the caller's handle becomes -1, the context's socket is
\* -1 and -1 is returned.  Both variants give the same result and the same
\* state for the same outcome of accept(2).
C16_AcceptVariants ==
    /\ [][call'.op \in {"accept", "pi_accept"}
          => LET got == sys'[1].arg IN
             /\ sys'[1].name = "accept"
             /\ sys'[1].fd = srv
             /\ IF got # -1
                THEN /\ ctx'.s = got
                     /\ rc' = got
                     /\ got \in open'
                     /\ srv' = srv
                     /\ srv \in open'
                     /\ Len(sys') = 1
                ELSE /\ srv \notin open'
                     /\ sys'[2] = Sys("close", srv, 0)
                     /\ srv' = -1
                     /\ ctx'.s = -1
                     /\ rc' = -1]_vars
    /\ [](\A completes \in BOOLEAN :
            TcpAccept(Machine, srv, completes) = TcpPiAccept(Machine, srv, completes))

\* modbus_tcp_pi_accept failed on a listening socket: the passive socket was
\* closed and the caller's handle invalidated
C16_Witness ==
    /\ call.op = "pi_accept"
    /\ sys = <<Sys("accept", 0, -1), Sys("close", 0, 0)>>
    /\ errno = "ECONNABORTED"
    /\ srv = -1
    /\ ctx.s = -1
    /\ rc = -1
    /\ 0 \notin open

(***************************************************************************)
(* The name/service transport: construction, connect and listen.           *)
(* Strings are sequences of characters.  Claims C15 and C17.               *)
(***************************************************************************)
Min(a, b) == IF a <= b THEN a ELSE b

\* strlcpy into a field of dest_size characters: the length of src, and the
\* copy cut to dest_size - 1 characters
Strlcpy(src, dest_size) ==
    [ret |-> Len(src), copy |-> SubSeq(src, 1, Min(Len(src), dest_size - 1))]

\* modbus_new_tcp_pi: the context (NoCtx for NULL), the heap and errno
ModbusNewTcpPi(node, service, e) ==
    LET n == Strlcpy(node, MODBUS_TCP_PI_NODE_LENGTH)
        sv == Strlcpy(service, MODBUS_TCP_PI_SERVICE_LENGTH)
        null == [ctx |-> NoCtx, heap |-> <<>>, errno |-> "EINVAL"] IN
    IF n.ret = 0 THEN null
    ELSE IF n.ret >= MODBUS_TCP_PI_NODE_LENGTH THEN null
    ELSE IF sv.ret = 0 THEN null
    ELSE IF sv.ret >= MODBUS_TCP_PI_SERVICE_LENGTH THEN null
    ELSE [ctx |-> NewTcpPiCtx(FALSE, 0),
          heap |-> (1 :> NewTcpPiData(n.copy, sv.copy)),
          errno |-> e]

\* the lists of at most MaxCand candidates a name resolution can return, each
\* candidate with one of the outcomes
CandidateLists(outcomes) ==
    UNION {[1 .. n -> outcomes] : n \in 1 .. MaxCand}

\* what getaddrinfo can do: fail, or return one of the lists
Resolutions(outcomes) ==
    {[resolves |-> FALSE, list |-> <<>>]}
    \cup {[resolves |-> TRUE, list |-> l] : l \in CandidateLists(outcomes)}

\* lines 545-576: the loop of _modbus_tcp_pi_connect from candidate i on;
\* r is [m, sys]
RECURSIVE PiConnectLoop(_, _, _)
PiConnectLoop(r, list, i) ==
    IF i > Len(list)
    THEN r
    ELSE IF list[i] = "socket" \/ Fds \ r.m.open = {}
    THEN PiConnectLoop([m |-> [r.m EXCEPT !.errno = "EMFILE"],
                        sys |-> Append(r.sys, Sys("socket", -1, i))],
                       list, i + 1)
    ELSE LET s0 == MinFree(r.m.open)
             opened == [r.m EXCEPT !.open = @ \cup {s0}] IN
         IF list[i] = "connect"
         THEN PiConnectLoop([m |-> [opened EXCEPT !.open = @ \ {s0},
                                                  !.errno = "ECONNREFUSED"],
                             sys |-> r.sys \o <<Sys("socket", s0, i),
                                                Sys("connect", s0, i),
                                                Sys("close", s0, i)>>],
                            list, i + 1)
         ELSE [m |-> [opened EXCEPT !.ctx.s = s0],
               sys |-> r.sys \o <<Sys("socket", s0, i), Sys("connect", s0, i)>>]

\* a connect that does not release the candidate list
PiConnect_NoRelease(m, resolves, list) ==
    IF ~resolves
    THEN [m |-> [m EXCEPT !.errno = "ECONNREFUSED", !.rc = -1],
          sys |-> <<Sys("getaddrinfo", -1, 0)>>]
    ELSE LET r == PiConnectLoop([m |-> m, sys |-> <<Sys("getaddrinfo", 0, 0)>>],
                                list, 1) IN
         [m |-> [r.m EXCEPT !.rc = IF r.m.ctx.s < 0 THEN -1 ELSE 0],
          sys |-> r.sys]

\* _modbus_tcp_pi_connect; resolves says whether getaddrinfo succeeds (the fd
\* of its record is its result), list is what it returns
PiConnect(m, resolves, list) ==
    IF ~resolves
    THEN [m |-> [m EXCEPT !.errno = "ECONNREFUSED", !.rc = -1],
          sys |-> <<Sys("getaddrinfo", -1, 0)>>]
    ELSE LET r == PiConnectLoop([m |-> m, sys |-> <<Sys("getaddrinfo", 0, 0)>>],
                                list, 1) IN
         [m |-> [r.m EXCEPT !.rc = IF r.m.ctx.s < 0 THEN -1 ELSE 0],
          sys |-> Append(r.sys, Sys("freeaddrinfo", -1, 0))]

\* what can happen to one candidate of modbus_tcp_pi_listen: socket fails,
\* bind fails (setsockopt and listen failing take the same path), or none
PiListenOutcomes == {"ok", "socket", "bind"}

\* lines 735-776: the loop of modbus_tcp_pi_listen from candidate i on;
\* r is [m, sys, new_s]
RECURSIVE PiListenLoop(_, _, _)
PiListenLoop(r, list, i) ==
    IF i > Len(list)
    THEN r
    ELSE IF list[i] = "socket" \/ Fds \ r.m.open = {}
    THEN PiListenLoop([r EXCEPT !.m.errno = "EMFILE",
                                !.sys = Append(@, Sys("socket", -1, i))],
                      list, i + 1)
    ELSE LET s0 == MinFree(r.m.open)
             calls == IF list[i] = "setsockopt" THEN <<"socket", "setsockopt">>
                      ELSE IF list[i] = "bind" THEN <<"socket", "setsockopt", "bind">>
                      ELSE <<"socket", "setsockopt", "bind", "listen">>
             made == [k \in 1 .. Len(calls) |-> Sys(calls[k], s0, i)] IN
         IF list[i] # "ok"
         THEN PiListenLoop([r EXCEPT !.m.errno = "EADDRINUSE",
                                     !.sys = @ \o made \o <<Sys("close", s0, i)>>],
                           list, i + 1)
         ELSE [r EXCEPT !.m.open = @ \cup {s0}, !.sys = @ \o made, !.new_s = s0]

\* modbus_tcp_pi_listen on the context c (NoCtx for NULL) whose parameters
\* are data: the machine, the system calls and the strings resolved
PiListen(c, data, m, resolves, list) ==
    IF c = NoCtx
    THEN [m |-> [m EXCEPT !.errno = "EINVAL", !.rc = -1], sys |-> <<>>,
          lookup |-> [node_null |-> FALSE, node |-> <<>>, service |-> <<>>]]
    ELSE LET lk == [node_null |-> data.node = <<>>, node |-> data.node,
                    service |-> IF data.service = <<>> THEN <<"5", "0", "2">>
                                ELSE data.service] IN
         IF ~resolves
         THEN [m |-> [m EXCEPT !.errno = "ECONNREFUSED", !.rc = -1],
               sys |-> <<Sys("getaddrinfo", -1, 0)>>, lookup |-> lk]
         ELSE LET r == PiListenLoop([m |-> m, new_s |-> -1,
                                     sys |-> <<Sys("getaddrinfo", 0, 0)>>],
                                    list, 1) IN
              [m |-> [r.m EXCEPT !.rc = r.new_s],
               sys |-> Append(r.sys, Sys("freeaddrinfo", -1, 0)), lookup |-> lk]

\* the node strings given to the constructor: none, a host name, one that
\* does not fit
NodeInputs ==
    {<<>>, <<"h">>, [i \in 1 .. MODBUS_TCP_PI_NODE_LENGTH |-> "n"]}

\* the service strings: none, "502", "1502", one that does not fit
ServiceInputs ==
    {<<>>, <<"5", "0", "2">>, <<"1", "5", "0", "2">>,
     [i \in 1 .. MODBUS_TCP_PI_SERVICE_LENGTH |-> "9"]}

\* the state after modbus_new_tcp_pi with any of the strings
InitPi ==
    /\ \E node \in NodeInputs, service \in ServiceInputs :
         LET r == ModbusNewTcpPi(node, service, "0") IN
         /\ ctx = r.ctx
         /\ heap = r.heap
         /\ errno = r.errno
         /\ given = [node |-> node, service |-> service]
    /\ call = [op |-> "new_tcp_pi", arg |-> 0]
    /\ srv = -1
    /\ sys = <<>>
    /\ lookup = [node_null |-> FALSE, node |-> <<>>, service |-> <<>>]
    /\ ai_list = <<>>
    /\ open = {}
    /\ log = <<>>
    /\ rc = 0
    /\ wire = <<>>
    /\ NoCall
    /\ NoBuild

\* modbus_connect on the name/service context, connected or not
PiConnectCall ==
    /\ ctx # NoCtx
    /\ \E g \in Resolutions(ConnectOutcomes) :
         LET r == PiConnect([Machine EXCEPT !.log = <<>>], g.resolves, g.list) IN
         /\ SetMachine(r.m)
         /\ rc' = r.m.rc
         /\ sys' = r.sys
         /\ ai_list' = g.list
    /\ lookup' = [node_null |-> FALSE, node |-> heap[ctx.backend_data].node,
                  service |-> heap[ctx.backend_data].service]
    /\ call' = [op |-> "pi_connect", arg |-> 0]
    /\ UNCHANGED <<rvars, bvars, srv, given>>

\* modbus_tcp_pi_listen with what the constructor returned, by a caller that
\* holds no passive socket
PiListenCall ==
    /\ srv = -1
    /\ \E g \in IF ctx = NoCtx THEN {[resolves |-> FALSE, list |-> <<>>]}
                ELSE Resolutions(PiListenOutcomes) :
         LET data == IF ctx = NoCtx THEN NewTcpPiData(<<>>, <<>>)
                     ELSE heap[ctx.backend_data]
             r == PiListen(ctx, data, [Machine EXCEPT !.log = <<>>],
                           g.resolves, g.list) IN
         /\ SetMachine(r.m)
         /\ rc' = r.m.rc
         /\ srv' = r.m.rc
         /\ sys' = r.sys
         /\ lookup' = r.lookup
         /\ ai_list' = g.list
    /\ call' = [op |-> "pi_listen", arg |-> 0]
    /\ UNCHANGED <<rvars, bvars, given>>

NextPi ==
    \/ PiConnectCall
    \/ PiListenCall
    \/ ctx # NoCtx /\ CloseCall

SpecPi == InitPi /\ [][NextPi]_vars

IsSocketCall(x) == x.name = "socket"

\* the first candidate of list whose connect completes, 0 when none does
FirstOk(list) ==
    IF \E i \in 1 .. Len(list) : list[i] = "ok"
    THEN CHOOSE i \in 1 .. Len(list) :
             list[i] = "ok" /\ \A j \in 1 .. i - 1 : list[j] # "ok"
    ELSE 0

\* C15: after a resolution that succeeds, name/service connect asks for a
\* socket for candidates 1, 2, ... in list order and stops at the first whose
\* connect completes, whose socket it stores in the context; every socket
\* opened for a candidate that failed is closed; the candidate list is
\* released exactly once, as the last call, whether a candidate completed or
\* all failed.
C15_PiConnectOrder ==
    [][call'.op = "pi_connect" /\ sys'[1] = Sys("getaddrinfo", 0, 0)
       => LET list == ai_list'
              first == IF Fds \ open = {} THEN 0 ELSE FirstOk(list)
              last == IF first = 0 THEN Len(list) ELSE first
              socks == SelectSeq(sys', IsSocketCall) IN
          /\ Len(socks) = last
          /\ \A k \in 1 .. last : socks[k].arg = k
          /\ IF first # 0
             THEN /\ socks[first].fd # -1
                  /\ ctx'.s = socks[first].fd
                  /\ ctx'.s \notin open
                  /\ open' = open \cup {ctx'.s}
             ELSE /\ ctx'.s = ctx.s
                  /\ open' = open
          /\ \A k \in 1 .. Len(sys') :
               (sys'[k].name = "socket" /\ sys'[k].fd # -1 /\ sys'[k].arg # first)
               => \E j \in k + 1 .. Len(sys') :
                    sys'[j] = Sys("close", sys'[k].fd, sys'[k].arg)
          /\ Cardinality({k \in 1 .. Len(sys') : sys'[k].name = "freeaddrinfo"}) = 1
          /\ sys'[Len(sys')].name = "freeaddrinfo"]_vars

\* the first candidate refused and the second accepted: the socket of the
\* first was closed, the second is the connection
C15_Witness ==
    /\ call.op = "pi_connect"
    /\ ai_list = <<"connect", "ok">>
    /\ sys = <<Sys("getaddrinfo", 0, 0),
               Sys("socket", 0, 1), Sys("connect", 0, 1), Sys("close", 0, 1),
               Sys("socket", 0, 2), Sys("connect", 0, 2),
               Sys("freeaddrinfo", -1, 0)>>
    /\ ctx.s = 0
    /\ open = {0}
    /\ rc = 0

\* C17: a name/service connection is created whether or not a service string
\* is given; listening on one created with the empty service string resolves
\* service "502", and with a service string resolves that string.
C17_DefaultService ==
    (given.node = <<"h">> /\ Len(given.service) < MODBUS_TCP_PI_SERVICE_LENGTH)
    => /\ ctx # NoCtx
       /\ call.op = "pi_listen"
          => lookup.service = IF given.service = <<>> THEN <<"5", "0", "2">>
                              ELSE given.service

\* the constructor was given the empty service string and returned NULL;
\* listening on that fails with EINVAL
C17_Witness ==
    /\ given = [node |-> <<"h">>, service |-> <<>>]
    /\ ctx = NoCtx
    /\ call.op = "pi_listen"
    /\ rc = -1
    /\ errno = "EINVAL"
    /\ srv = -1

(***************************************************************************)
(* The transaction id counter among the other operations: claim C18.       *)
(* A client connects, builds requests and receives; the receive call is    *)
(* followed to its end after at most MaxBusyBuilds requests, the counter   *)
(* through its wrap.                                                       *)
(***************************************************************************)
\* a response header with the bytes of the transaction id in the other order
BuildResponseBasis_Swapped(sft, rsp) ==
    [rsp |-> Store(Store(Store(Store(Store(Store(rsp,
                 0, sft.t_id % 256), 1, sft.t_id \div 256), 2, 0), 3, 0),
                 6, sft.slave), 7, sft.function),
     rc |-> PRESET_RSP_LENGTH]

\* lines 157-177: _modbus_tcp_build_response_basis
BuildResponseBasis(sft, rsp) ==
    [rsp |-> Store(Store(Store(Store(Store(Store(rsp,
                 0, sft.t_id \div 256), 1, sft.t_id % 256), 2, 0), 3, 0),
                 6, sft.slave), 7, sft.function),
     rc |-> PRESET_RSP_LENGTH]

InitCounter ==
    /\ ctx = NewTcpCtx(TRUE, 0)
    /\ heap = (1 :> NewTcpData)
    /\ open = {}
    /\ errno = "0"
    /\ log = <<>>
    /\ rc = 0
    /\ wire = <<>>
    /\ NoCall
    /\ new_ctx = NoCtx
    /\ req = FreshRequest
    /\ req_length = 0
    /\ built = [orig |-> 0, clone |-> 0, at_clone |-> 0]
    /\ patched = 0
    /\ NoLife

\* a request is built on the connected context, between two calls
BuildCall ==
    /\ pc = "idle"
    /\ ctx.s # -1
    /\ Build("orig", MaxBuilds)

\* the length patch of the request that was built, after the confirmation
\* was checked
PatchCall ==
    /\ pc = "checked"
    /\ built.orig >= 1
    /\ Patch

\* the header of the response to the indication received, with the
\* transaction id of the indication
ResponseCall ==
    /\ pc = "done"
    /\ msg_type = "MSG_INDICATION"
    /\ rc > 0
    /\ LET sft == [slave |-> At(msg, 6), function |-> At(msg, 7),
                   t_id |-> PrepareResponseTid(msg)]
           r == BuildResponseBasis(sft, FreshRequest) IN
         /\ req' = r.rsp
         /\ req_length' = r.rc
    /\ UNCHANGED <<ctx, open, errno, log, rc, rvars, heap, new_ctx, built, patched,
                   lvars>>

\* few enough requests were built for the other operations to be followed
Busy == built.orig <= MaxBusyBuilds

NextCounter ==
    \/ BuildCall
    \/ Busy /\ Connect
    \/ Busy /\ ReceiveMsg
    \/ Busy /\ TcpReceive
    \/ Busy /\ SelectEintr
    \/ Busy /\ SelectReady
    \/ Busy /\ \E e \in SelectErrnos : SelectFail(e)
    \/ Busy /\ \E zero \in BOOLEAN, e \in RecvErrnos : RecvFail(zero, e)
    \/ Busy /\ \E k \in 1 .. RecvRequest(length_to_read) : RecvBytes(k)
    \/ Busy /\ PreCheck
    \/ Busy /\ PatchCall
    \/ Busy /\ ResponseCall

SpecCounter == InitCounter /\ [][NextCounter]_vars

\* C18: the transaction id counter is in 0..65535 in every state; a build
\* changes it to (previous + 1) mod 65536, so 65535 to 0, and writes the new
\* value big-endian into bytes 0-1 of the request; every other step (length
\* patch, response build, receive, check of the confirmation, connect, and the
\* close, flush and reconnect of a repair) leaves it as it is.
C18_CounterOwned ==
    /\ [](heap[ctx.backend_data].t_id \in 0 .. 65535)
    /\ [][LET old == heap[ctx.backend_data].t_id
              new == heap'[ctx'.backend_data].t_id IN
          IF built'.orig = built.orig + 1
          THEN /\ new = (old + 1) % 65536
               /\ old = 65535 => new = 0
               /\ At(req', 0) = new \div 256
               /\ At(req', 1) = new % 256
               /\ At(req', 0) * 256 + At(req', 1) = new
          ELSE new = old]_vars

\* the 65536th request was built: the counter wrapped to 0
C18_Witness ==
    /\ built.orig = 65536
    /\ heap[ctx.backend_data].t_id = 0
    /\ At(req, 0) = 0
    /\ At(req, 1) = 0
    /\ ctx.s # -1

(***************************************************************************)
(* Interrupted waits and the timeout of each wait: claims C19 and C20.     *)
(***************************************************************************)
\* C19: a wait interrupted by a signal is restarted on the descriptor the
\* call waits on and the call goes on as if nothing had happened: the step
\* changes nothing of the call but errno, makes no flush, close or
\* reconnect, and no wait is ever recorded as failed with EINTR nor a call
\* ended with EINTR as its error.
C19_EintrRestarts ==
    /\ [][eintr' = eintr + 1
          => /\ errno' = "EINTR"
             /\ pc = "select"
             /\ pc' = "select"
             /\ ctx' = ctx
             /\ ctx.s = entry_s
             /\ s' = s
             /\ open' = open
             /\ log' = log
             /\ rc' = rc
             /\ failed' = failed
             /\ <<msg, msg_length, length_to_read, step, p_tv, wire, consumed>>'
                = <<msg, msg_length, length_to_read, step, p_tv, wire, consumed>>]_vars
    /\ [](failed.errno # "EINTR")
    /\ []((pc = "done" /\ rc = -1) => errno # "EINTR")

\* the wait after the first bytes of a message was interrupted as often as
\* the model allows: the call still waits, nothing failed, nothing was repaired
C19_Witness ==
    /\ pc = "select"
    /\ eintr = MaxEintr
    /\ errno = "EINTR"
    /\ msg_length = HEADER_LENGTH + 1
    /\ failed = NoFailure
    /\ log = <<>>

\* the timeout a receive call starts with
FirstTimeout == IF msg_type = "MSG_INDICATION" THEN "NULL" ELSE "response"

\* C20: the timeout of a wait that is about to be made is, before the first
\* byte of the message, the response timeout on a confirmation and none on an
\* indication; after at least one byte, with bytes outstanding, the
\* inter-byte timeout when it is bounded and otherwise the timeout the call
\* started with.  The inter-byte timeout is never that of a wait made before
\* the first byte.
C20_WaitTimeout ==
    pc = "select"
    => /\ length_to_read > 0
       /\ msg_length = 0 => p_tv = FirstTimeout
       /\ msg_length = 0 => p_tv # "byte"
       /\ msg_length > 0
          => p_tv = IF ctx.byte_timeout # -1 THEN "byte" ELSE FirstTimeout

\* an indication whose first bytes have arrived waits for the rest under the
\* inter-byte timeout
C20_Witness ==
    /\ pc = "select"
    /\ msg_type = "MSG_INDICATION"
    /\ msg_length > 0
    /\ ctx.byte_timeout # -1
    /\ p_tv = "byte"

(***************************************************************************)
(* The zero-byte read: claim C21.                                          *)
(***************************************************************************)
\* C21: a raw receive that returns zero bytes fails the call with an error
\* kind that is not connection-reset, and is followed by no close and no
\* reconnect, with or without link recovery: the socket handle stays as it
\* was when the call was entered.
C21_PeerClosedNotRepaired ==
    failed.op = "recv0"
    => /\ pc = "done"
       /\ rc = -1
       /\ errno # "ECONNRESET"
       /\ log = <<>>
       /\ ctx.s = entry_s

\* with link recovery, a zero-byte read in the middle of a message ended the
\* call with ECONNRESET after the close and a reconnect that failed
C21_Witness ==
    /\ failed = [op |-> "recv0", errno |-> "ECONNRESET"]
    /\ ctx.error_recovery
    /\ msg_length > 0
    /\ pc = "done"
    /\ rc = -1
    /\ errno = "ECONNRESET"
    /\ log = <<"close", "shutdown", "release", "connect">>
    /\ ctx.s = -1

(***************************************************************************)
(* Step-wise reads of the framer: claim C22.                               *)
(***************************************************************************)
\* the steps of the framer in the order the switch of lines 302-326 takes them
StepOrder(from, to, function, mt) ==
    \/ from = "_STEP_FUNCTION" /\ to = "_STEP_META"
         /\ compute_meta_length_after_function(function, mt) # 0
    \/ from = "_STEP_FUNCTION" /\ to = "_STEP_DATA"
         /\ compute_meta_length_after_function(function, mt) = 0
    \/ from = "_STEP_META" /\ to = "_STEP_DATA"

\* C22: the call starts in the function-code step with header_length + 1
\* bytes outstanding; every raw receive takes at least one byte and never more
\* than the bytes the current step still lacks; the step changes only from
\* function code to metadata, from metadata to data, or from function code
\* straight to data when the metadata length is zero; the bytes taken from the
\* socket are at every moment the bytes written to the buffer, so a call that
\* succeeds has consumed exactly the bytes of the message it returns and none
\* of the message that follows.
C22_ExactReads ==
    /\ [](CallEntered => /\ consumed = msg_length
                         /\ msg = SubSeq(wire, 1, consumed))
    /\ []((pc = "done" /\ CallEntered /\ failed.op = "none" /\ rc >= 0)
            => /\ rc = consumed
               /\ length_to_read = 0)
    /\ [][/\ (~CallEntered /\ CallEntered')
               => /\ length_to_read' = HEADER_LENGTH + 1
                  /\ step' = "_STEP_FUNCTION"
                  /\ consumed' = 0
          /\ consumed' # consumed
               => /\ consumed' - consumed \in 1 .. length_to_read
                  /\ consumed' - consumed < length_to_read
                       => /\ step' = step
                          /\ length_to_read' = length_to_read - (consumed' - consumed)
          /\ (CallEntered /\ step' # step)
               => /\ consumed' - consumed = length_to_read
                  /\ StepOrder(step, step', At(msg', HEADER_LENGTH), msg_type)
         ]_vars

\* an indication with function code 7, which has no metadata, was received in
\* fragments: the step went from function code straight to data and the call
\* returned the eight bytes it took from the socket
C22_Witness ==
    /\ pc = "done"
    /\ msg_type = "MSG_INDICATION"
    /\ failed.op = "none"
    /\ partial
    /\ At(msg, HEADER_LENGTH) = 7
    /\ step = "_STEP_DATA"
    /\ rc = HEADER_LENGTH + 1
    /\ consumed = rc

(***************************************************************************)
(* The result of name/service connect: claim C23.                          *)
(***************************************************************************)
\* the candidates of the system-call record cs whose connect completed: their
\* socket was connected and not closed afterwards
Connected(cs) ==
    {k \in 1 .. Len(cs) :
        /\ cs[k].name = "connect"
        /\ \A j \in k + 1 .. Len(cs) : cs[j] # Sys("close", cs[k].fd, cs[k].arg)}

\* C23: name/service connect returns 0 only if the connect of a candidate
\* completed during the call, and the context's socket is then the socket of
\* that candidate; when no candidate's connect completes it returns -1; this
\* holds for a call on a context with no socket and for a call on a context
\* that already records one.
C23_PiConnectResult ==
    [][call'.op = "pi_connect"
       => /\ rc' = 0 => \E k \in Connected(sys') : ctx'.s = sys'[k].fd
          /\ Connected(sys') = {} => rc' = -1]_vars

\* a context that records socket 0 connected again, both candidates refused,
\* and the call returned 0 with the old socket still in the context
C23_Witness ==
    /\ call.op = "pi_connect"
    /\ ai_list = <<"connect", "connect">>
    /\ sys = <<Sys("getaddrinfo", 0, 0),
               Sys("socket", 1, 1), Sys("connect", 1, 1), Sys("close", 1, 1),
               Sys("socket", 1, 2), Sys("connect", 1, 2), Sys("close", 1, 2),
               Sys("freeaddrinfo", -1, 0)>>
    /\ Connected(sys) = {}
    /\ ctx.s = 0
    /\ open = {0}
    /\ rc = 0

(***************************************************************************)
(* Termination of the receive call: claim C24.  The flush of the recovery  *)
(* policy is taken read by read here.                                      *)
(***************************************************************************)
\* the reads of a flush are counted modulo this
FlushCycle == 2

\* line 606: what one non-blocking receive of the flush returns: -1 when
\* nothing is waiting, 0 when the peer has closed, fewer bytes than the
\* buffer holds, or the buffer full
FlushReturns == {-1, 0, 1, MAX_ADU_LENGTH}

\* line 629: the condition on which the flush reads again
FlushAgain(r) == r = MAX_ADU_LENGTH

\* lines 253-268: the wait fails with e and the policy makes no flush
SelectFailNoFlush(e) ==
    /\ ~(ctx.error_recovery /\ e = "ETIMEDOUT")
    /\ SelectFail(e)

\* lines 112-114 and 253-260: the wait of a link-recovery context times out;
\* the call sleeps for the response timeout and enters the flush
SelectTimeout ==
    /\ pc = "select"
    /\ p_tv # "NULL"
    /\ ctx.error_recovery
    /\ LET m == SleepResponseTimeout([Machine EXCEPT !.errno = "ETIMEDOUT"]) IN
       /\ SetMachine(m)
       /\ rc' = rc
    /\ pc' = "flush"
    /\ failed' = [op |-> "select", errno |-> "ETIMEDOUT"]
    /\ eintr' = 0
    /\ flush_reads' = 0
    /\ Issue
    /\ UNCHANGED <<msg_type, s, msg, msg_length, length_to_read, step, p_tv,
                   wire, consumed, entry_s, partial, read_at_check, bvars, lvars>>

\* lines 602-629, then 265-267: one read of the flush returns r; the flush
\* reads again, or it ends and the call returns -1 with the errno of the wait
FlushRecv(r) ==
    /\ pc = "flush"
    /\ IF FlushAgain(r)
       THEN /\ flush_reads' = (flush_reads + 1) % FlushCycle
            /\ UNCHANGED <<ctx, open, errno, log, rc, pc>>
       ELSE /\ LET m == TcpFlush(Machine, r = -1) IN
               SetMachine([m EXCEPT !.errno = failed.errno])
            /\ rc' = -1
            /\ pc' = PcAfterFailure
            /\ flush_reads' = 0
    /\ UNCHANGED <<msg_type, s, msg, msg_length, length_to_read, step, p_tv,
                   wire, consumed, eintr, entry_s, failed, partial, io_after_fail,
                   read_at_check, bvars, lvars>>

\* the steps in which a system call of the receive call returns: a wait that
\* has a timeout, a raw receive on the socket the wait reported readable, a
\* non-blocking receive of the flush
CallStep ==
    \/ /\ p_tv # "NULL"
       /\ \/ SelectEintr
          \/ SelectReady
          \/ \E e \in SelectErrnos : SelectFailNoFlush(e)
          \/ SelectTimeout
    \/ \E zero \in BOOLEAN, e \in RecvErrnos : RecvFail(zero, e)
    \/ \E k \in {1, RecvRequest(length_to_read)} : RecvBytes(k)
    \/ \E r \in FlushReturns : FlushRecv(r)

NextLive ==
    \/ Connect
    \/ ReceiveMsg
    \/ TcpReceive
    \/ SelectEintr
    \/ SelectReady
    \/ \E e \in SelectErrnos : SelectFailNoFlush(e)
    \/ SelectTimeout
    \/ \E r \in FlushReturns : FlushRecv(r)
    \/ \E zero \in BOOLEAN, e \in RecvErrnos : RecvFail(zero, e)
    \/ \E k \in {1, RecvRequest(length_to_read)} : RecvBytes(k)

\* every system call that has to return does return; a wait without a timeout
\* need not
SpecLive == Init /\ [][NextLive]_vars /\ WF_vars(CallStep)

\* _modbus_tcp_receive_msg is running
InCall == pc \in {"select", "recv", "flush"}

\* the call is past every wait that has no timeout: the inter-byte timeout is
\* bounded, and the call receives a confirmation or has received the first
\* bytes of an indication
PastUnboundedWait ==
    /\ InCall
    /\ ctx.byte_timeout # -1
    /\ msg_type = "MSG_CONFIRMATION" \/ msg_length > 0

\* C24: with a bounded inter-byte timeout and finitely many interruptions of
\* each wait, a receive call that is past the first wait of an indication (a
\* confirmation receive from its start) eventually returns, with a message
\* length or with an error, whatever the peer sends or withholds.
C24_Terminates == PastUnboundedWait ~> pc = "done"

\* a confirmation receive of a link-recovery context timed out, and its flush
\* has read a full buffer and reads again
C24_Witness ==
    /\ pc = "flush"
    /\ msg_type = "MSG_CONFIRMATION"
    /\ ctx.error_recovery
    /\ ctx.byte_timeout # -1
    /\ failed = [op |-> "select", errno |-> "ETIMEDOUT"]
    /\ log = <<"sleep">>
    /\ flush_reads = 1

\* outside the flush the call does return: it reaches the flush or its end
C24_TerminatesOrFlushes == PastUnboundedWait ~> (pc = "done" \/ pc = "flush")

\* before the first bytes of an indication the wait has no timeout
C24_FirstWaitUnbounded ==
    (pc = "select" /\ msg_type = "MSG_INDICATION" /\ msg_length = 0)
    => p_tv = "NULL"

(***************************************************************************)
(* The transaction id from the request to the checked response: claim C25. *)
(* A client whose counter holds any value builds a request; the server     *)
(* takes the id out of the request and builds the response header from it; *)
(* the client checks the response against its request.                     *)
(***************************************************************************)
InitTid ==
    /\ ctx = NewTcpCtx(FALSE, 0)
    /\ \E t \in 0 .. UINT16_MAX : heap = (1 :> [NewTcpData EXCEPT !.t_id = t])
    /\ open = {}
    /\ errno = "0"
    /\ log = <<>>
    /\ rc = 0
    /\ wire = <<>>
    /\ NoCall
    /\ new_ctx = NoCtx
    /\ req = FreshRequest
    /\ req_length = 0
    /\ built = [orig |-> 0, clone |-> 0, at_clone |-> 0]
    /\ patched = 0
    /\ NoLife

\* the client builds its request
TidBuild ==
    /\ built.orig = 0
    /\ Build("orig", 1)

\* lines 180-183 and 157-177: the server reads the transaction id of the
\* request and builds the header of the response from it; the header is what
\* the client receives
TidRespond ==
    /\ built.orig = 1
    /\ msg = <<>>
    /\ LET sft == [slave |-> At(req, 6), function |-> At(req, 7),
                   t_id |-> PrepareResponseTid(req)]
           r == BuildResponseBasis(sft, FreshRequest) IN
         /\ msg' = SubSeq(r.rsp, 1, r.rc)
         /\ msg_length' = r.rc
    /\ UNCHANGED <<ctx, open, errno, log, rc, pc, msg_type, s, length_to_read, step,
                   p_tv, wire, consumed, eintr, entry_s, failed, partial,
                   io_after_fail, read_at_check, flush_reads, bvars, lvars>>

\* lines 357-371: the client checks the response against the request
TidCheck ==
    /\ pc = "idle"
    /\ msg # <<>>
    /\ LET r == PreCheckConfirmation(req, msg, errno) IN
         /\ rc' = r.rc
         /\ errno' = r.errno
    /\ pc' = "checked"
    /\ UNCHANGED <<ctx, open, log, msg_type, s, msg, msg_length, length_to_read,
                   step, p_tv, wire, consumed, eintr, entry_s, failed, partial,
                   io_after_fail, read_at_check, flush_reads, bvars, lvars>>

NextTid ==
    \/ TidBuild
    \/ TidRespond
    \/ TidCheck

SpecTid == InitTid /\ [][NextTid]_vars

\* C25: for every transaction id t in 0..65535 that a built request carries,
\* the id read from the request is t, the response header built from it has t
\* big-endian in bytes 0-1 and zero in bytes 2-3, and the check of that
\* response against the request reports a match.
C25_TidRoundTrip ==
    LET t == heap[ctx.backend_data].t_id IN
    /\ built.orig = 1
         => /\ At(req, 0) * 256 + At(req, 1) = t
            /\ PrepareResponseTid(req) = t
    /\ msg # <<>>
         => /\ At(msg, 0) = t \div 256
            /\ At(msg, 1) = t % 256
            /\ At(msg, 2) = 0
            /\ At(msg, 3) = 0
    /\ pc = "checked"
         => /\ rc = 0
            /\ errno = "0"

\* the request with transaction id 0x1234 was answered and the response
\* matched
C25_Witness ==
    /\ pc = "checked"
    /\ rc = 0
    /\ heap[ctx.backend_data].t_id = 4660
    /\ PrepareResponseTid(req) = 4660
    /\ SubSeq(msg, 1, 4) = <<18, 52, 0, 0>>

====
